---- MODULE Spec2Model ----
(***************************************************************************)
(* A model of the bind family (bind.go), the RootDSE accessor and the      *)
(* directory-synchronization driver of the LDAP client, over one           *)
(* connection with a message-ID counter, a registry of pending requests    *)
(* and a background dispatcher.                                            *)
(***************************************************************************)
EXTENDS Integers, Sequences, FiniteSets, TLC

VARIABLES
    messageID,        \* Conn: the last message ID handed out by nextMessageID
    messageContexts,  \* Conn: the registry, the set of registered message IDs
    chans,            \* msgCtx.responses of every registered ID: [buf, closed]
    isClosing,        \* Conn: the connection was closed
    wire,             \* the envelopes written to the transport, in order
    answered,         \* the message IDs the server has answered
    call,             \* per caller: the bind call it is in and its locals
    budget,           \* calls that may still be started
    ds,               \* the SearchWithDirSync call and its locals
    rd,               \* the RootDSE call and its locals
    enc               \* a bind request on its way through the codec to a stub server

connVars == <<messageID, messageContexts, chans, isClosing, wire, answered>>
bindVars == <<messageID, messageContexts, chans, isClosing, wire, answered, call, budget>>
vars == <<messageID, messageContexts, chans, isClosing, wire, answered, call, budget, ds, rd, enc>>

----------------------------------------------------------------------------
(* Bounds of the model *)

\* the calls the concurrent callers may start in all
MaxCalls == 2
\* the calls the single caller of SeqSpec may start
MaxSeqCalls == 2

Callers == {1, 2}

----------------------------------------------------------------------------
(* Go values *)

\* a nil error
NoErr == [kind |-> "nil"]
\* a nil []byte, as distinct from an empty one
NilBytes == [nil |-> TRUE]
Bytes(s) == [b |-> s]
BytesLen(x) == IF x = NilBytes THEN 0 ELSE Len(x.b)
\* a nil *ber.Packet, a nil *SimpleBindResult
NilPacket == [nil |-> TRUE]
NilResult == [nil |-> TRUE]
NoReq == [nil |-> TRUE]

\* uint8(x) of an int64 x >= 0
uint8(x) == x % 256

\* error.go: the client-side result codes
ErrorNetwork == 200
ErrorUnexpectedResponse == 205
ErrorEmptyPassword == 206

NewError(code, msg) == [kind |-> "ldap", code |-> code, msg |-> msg]
Errorf(msg) == [kind |-> "plain", msg |-> msg]

----------------------------------------------------------------------------
(* Inputs *)

Usernames == {"cn=admin"}
Passwords == {"", "secret"}
ReqControlLists == {<<>>, <<"ctl_a">>}
Mechanisms == {"GSSAPI"}
Credentials == {Bytes(<<1>>)}

\* what a server can answer
ServerCodes == {0, 49, 256}
Diags == {"", "invalid credentials"}
\* a response's controls section: absent, or a list of raw controls
NoSection == [absent |-> TRUE]
Section(cs) == [Children |-> cs]
ControlSections == {NoSection, Section(<<>>), Section(<<"ctl_a", "ctl_b">>),
                    Section(<<"ctl_a", "bad">>)}
Tokens == {NilBytes, Bytes(<<7>>)}

----------------------------------------------------------------------------
(* Requests *)

\* the tags of the packets a bind request is made of
TagInteger == 2
TagOctetString == 4
TagSequence == 16
ApplicationBindRequest == 0

\* the content octets of an integer v >= 0: base 256, the first bit clear
EncodeInteger(v) ==
    IF v < 128 THEN <<v>>
    ELSE IF v < 32768 THEN <<v \div 256, v % 256>>
    ELSE <<v \div 65536, (v \div 256) % 256, v % 256>>

RECURSIVE DecodeInteger(_)
DecodeInteger(bytes) ==
    IF bytes = <<>> THEN 0
    ELSE DecodeInteger(SubSeq(bytes, 1, Len(bytes) - 1)) * 256 + bytes[Len(bytes)]

\* ber.Encode, ber.NewInteger, ber.NewString: a constructed packet with its
\* children, a primitive packet with its value and its content octets; a
\* string is the sequence of its bytes, or a name where no call encodes it
Encode(class, type, tag, children) ==
    [ClassType |-> class, TagType |-> type, Tag |-> tag, Children |-> children]
NewInteger(class, type, tag, value) ==
    [ClassType |-> class, TagType |-> type, Tag |-> tag, Value |-> value,
     Data |-> EncodeInteger(value)]
NewString(class, type, tag, value) ==
    [ClassType |-> class, TagType |-> type, Tag |-> tag, Value |-> value,
     Data |-> value]

SimpleBindRequest(u, p, cs, allow) ==
    [Username |-> u, Password |-> p, Controls |-> cs, AllowEmptyPassword |-> allow]

NewSimpleBindRequest(username, password, controls) ==
    SimpleBindRequest(username, password, controls, FALSE)

\* control.go encodeControls: the controls section of an envelope
encodeControls(controls) ==
    [ClassType |-> "Context", TagType |-> "Constructed", Tag |-> 0, Children |-> controls]

\* the password appended as one more universal octet string
appendTo_UniversalPassword(req) ==
    LET pkt == Encode("Application", "Constructed", ApplicationBindRequest,
                 << NewInteger("Universal", "Primitive", TagInteger, 3),
                    NewString("Universal", "Primitive", TagOctetString, req.Username),
                    NewString("Universal", "Primitive", TagOctetString, req.Password) >>)
    IN  IF Len(req.Controls) > 0
        THEN << pkt, encodeControls(req.Controls) >>
        ELSE << pkt >>

\* the bind request a SimpleBindRequest appends to the envelope, and the
\* controls section that follows it when the request has controls
appendTo(req) ==
    LET pkt == Encode("Application", "Constructed", ApplicationBindRequest,
                 << NewInteger("Universal", "Primitive", TagInteger, 3),
                    NewString("Universal", "Primitive", TagOctetString, req.Username),
                    NewString("Context", "Primitive", 0, req.Password) >>)
    IN  IF Len(req.Controls) > 0
        THEN << pkt, encodeControls(req.Controls) >>
        ELSE << pkt >>

externalBindRequest ==
    << Encode("Application", "Constructed", ApplicationBindRequest,
         << NewInteger("Universal", "Primitive", TagInteger, 3),
            NewString("Universal", "Primitive", TagOctetString, ""),
            Encode("Context", "Constructed", 3,
              << NewString("Universal", "Primitive", TagOctetString, "EXTERNAL"),
                 NewString("Universal", "Primitive", TagOctetString, "") >>) >>) >>

saslBindRequest(mechanism, credentials) ==
    << Encode("Application", "Constructed", ApplicationBindRequest,
         << NewInteger("Universal", "Primitive", TagInteger, 3),
            NewString("Universal", "Primitive", TagOctetString, ""),
            Encode("Context", "Constructed", 3,
              << NewString("Universal", "Primitive", TagOctetString, mechanism),
                 NewString("Universal", "Primitive", TagOctetString, credentials) >>) >>) >>

\* an envelope on the wire: the message ID and the children appended to it;
\* api and allow record which call wrote it
Envelope(id, children, api, allow) ==
    [id |-> id, children |-> children, api |-> api, allow |-> allow]

----------------------------------------------------------------------------
(* Responses *)

\* the Value of a decoded packet with its dynamic type: an int64, a string,
\* or nil; Int64 and String are what Value.(int64) and Value.(string) give
\* where the assertion holds
Int64Value(v) == [Type |-> "int64", Int64 |-> v]
StringValue(v) == [Type |-> "string", String |-> v]
NoValue == [Type |-> "nil"]

\* a bind response envelope: message ID, the response (result code, matched
\* DN, diagnostic message, optional server credentials) and, when the server
\* sends one, a controls section
BindResponse(id, code, diag, token, section) ==
    LET fields == << Int64Value(code), StringValue(""), StringValue(diag) >>
        response == [ClassType |-> "Application", TagType |-> "Constructed",
                     Children |-> IF token = NilBytes THEN fields
                                  ELSE Append(fields, [Data |-> token])]
    IN  [Children |-> IF section = NoSection
                      THEN << Int64Value(id), response >>
                      ELSE << Int64Value(id), response, section >>]

\* an envelope with one more child after its last
WithTrailer(packet) ==
    [Children |-> Append(packet.Children, StringValue("trailer"))]

\* an envelope whose second child is the given one
ResponseWith(id, response) == [Children |-> <<Int64Value(id), response>>]

\* a second child of the given class and type with the given fields
ResponseOf(class, type, fields) ==
    [ClassType |-> class, TagType |-> type, Children |-> fields]

\* the responses that are not of the shape of a SASL bind response
MalformedSASLResponses(id) ==
    {NilPacket,
     [Children |-> <<Int64Value(id)>>],
     ResponseWith(id, NilPacket),
     ResponseWith(id, ResponseOf("Universal", "Constructed",
                        <<Int64Value(0), StringValue(""), StringValue("")>>)),
     ResponseWith(id, ResponseOf("Application", "Primitive",
                        <<Int64Value(0), StringValue(""), StringValue("")>>)),
     ResponseWith(id, ResponseOf("Application", "Constructed",
                        <<Int64Value(0), StringValue("")>>)),
     ResponseWith(id, ResponseOf("Application", "Constructed",
                        <<StringValue("0"), StringValue(""), StringValue("")>>)),
     ResponseWith(id, ResponseOf("Application", "Constructed",
                        <<Int64Value(0), StringValue(""), NoValue>>))}

----------------------------------------------------------------------------
(* Result decoding *)

\* a failed type assertion: the goroutine panics
Panic == [panic |-> TRUE]

\* error.go: code 0 is success, any other code a failure that carries the
\* code and the server's diagnostic message
GetLDAPError(packet) ==
    LET response == packet.Children[2]
        code == response.Children[1].Int64
    IN  IF code = 0 THEN NoErr
        ELSE NewError(code, response.Children[3].String)

\* control.go: a raw control decodes to a typed control, or fails
DecodeControl(child) ==
    IF child = "bad"
    THEN [err |-> Errorf("bad control"), control |-> [nil |-> TRUE]]
    ELSE [err |-> NoErr, control |-> [ControlType |-> child]]

\* SimpleBind looking at the result code before it decodes the controls
SimpleBindDecode_CodeFirst(packet) ==
    LET raw == IF Len(packet.Children) = 3 THEN packet.Children[3].Children ELSE <<>>
        dec == [i \in 1..Len(raw) |-> DecodeControl(raw[i])]
    IN  IF GetLDAPError(packet) # NoErr
        THEN [result |-> NilResult, err |-> GetLDAPError(packet)]
        ELSE IF \E i \in 1..Len(raw) : dec[i].err # NoErr
        THEN [result |-> NilResult,
              err |-> Errorf("failed to decode child control")]
        ELSE [result |-> [Controls |-> [i \in 1..Len(raw) |-> dec[i].control]],
              err |-> NoErr]

\* SimpleBind after readPacket: the (result, err) it returns for a packet
SimpleBindDecode(packet) ==
    LET raw == IF Len(packet.Children) = 3 THEN packet.Children[3].Children ELSE <<>>
        dec == [i \in 1..Len(raw) |-> DecodeControl(raw[i])]
    IN  IF \E i \in 1..Len(raw) : dec[i].err # NoErr
        THEN [result |-> NilResult,
              err |-> Errorf("failed to decode child control")]
        ELSE [result |-> [Controls |-> [i \in 1..Len(raw) |-> dec[i].control]],
              err |-> GetLDAPError(packet)]

\* ExternalBind after readPacket
ExternalBindDecode(packet) ==
    [result |-> NilResult, err |-> GetLDAPError(packet)]

\* the result code, token and diagnostic message of a response; the type
\* assertions on the result code and on the diagnostic message are unchecked
getSASLBindResultCode(packet) ==
    IF packet = NilPacket
    THEN [code |-> ErrorUnexpectedResponse, token |-> NilBytes, description |-> "Empty packet"]
    ELSE IF Len(packet.Children) >= 2 /\ packet.Children[2] = NilPacket
    THEN [code |-> ErrorUnexpectedResponse, token |-> NilBytes,
          description |-> "Empty response in packet"]
    ELSE IF Len(packet.Children) >= 2
            /\ packet.Children[2].ClassType = "Application"
            /\ packet.Children[2].TagType = "Constructed"
            /\ Len(packet.Children[2].Children) >= 3
    THEN LET response == packet.Children[2]
         IN  IF response.Children[1].Type # "int64" THEN Panic
             ELSE IF response.Children[3].Type # "string" THEN Panic
             ELSE [code |-> uint8(response.Children[1].Int64),
                   token |-> IF Len(response.Children) >= 4
                             THEN response.Children[4].Data ELSE NilBytes,
                   description |-> response.Children[3].String]
    ELSE [code |-> ErrorNetwork, token |-> NilBytes, description |-> "Invalid packet format"]

\* SASLBind after the response was read: the (token, err) it returns
SASLBindDecode(packet) ==
    LET r == getSASLBindResultCode(packet)
    IN  IF r = Panic THEN Panic
        ELSE IF r.code # 0
        THEN [token |-> NilBytes, err |-> NewError(r.code, r.description)]
        ELSE [token |-> r.token, err |-> NoErr]

----------------------------------------------------------------------------
(* Calls *)

IdleCall ==
    [pc |-> "idle", api |-> "none", req |-> NoReq, id |-> 0,
     packet |-> NilPacket, result |-> NilResult, token |-> NilBytes,
     err |-> NoErr, sent |-> 0, recvd |-> 0, finished |-> 0]

CanStart(c) == call[c].pc \in {"idle", "done"} /\ budget > 0

\* the guard with the opt-in read the wrong way round
EmptyPasswordRejected_Inverted(req) ==
    req.Password = "" /\ req.AllowEmptyPassword

\* no guard at all
EmptyPasswordRejected_Never(req) ==
    FALSE

\* the guard without the opt-in
EmptyPasswordRejected_Always(req) ==
    req.Password = ""

\* SimpleBind's guard against an empty password
EmptyPasswordRejected(req) ==
    req.Password = "" /\ ~req.AllowEmptyPassword

\* conn.go sendMessage: registers the message context and writes the envelope
\* both or neither
sendMessage(c, cur, envelope) ==
    IF isClosing
    THEN /\ call' = [call EXCEPT ![c] = [cur EXCEPT !.pc = "done",
                       !.err = NewError(ErrorNetwork, "ldap: connection closed")]]
         /\ UNCHANGED <<messageContexts, chans, wire>>
    ELSE /\ messageContexts' = messageContexts \cup {envelope.id}
         /\ chans' = (envelope.id :> [buf |-> <<>>, closed |-> FALSE]) @@ chans
         /\ wire' = Append(wire, envelope)
         /\ call' = [call EXCEPT ![c] = [cur EXCEPT !.pc = "await",
                       !.id = envelope.id, !.sent = cur.sent + 1]]

\* conn.go doRequest: allocates the message ID and submits the envelope under
\* one exclusion
doRequest(c, cur, children, allow) ==
    /\ messageID' = IF isClosing THEN messageID ELSE messageID + 1
    /\ sendMessage(c, cur, Envelope(messageID + 1, children, cur.api, allow))
    /\ UNCHANGED <<isClosing, answered>>

\* SimpleBind up to the point where it waits for the response
SimpleBind(c, api, req) ==
    /\ CanStart(c)
    /\ budget' = budget - 1
    /\ LET cur == [IdleCall EXCEPT !.api = api, !.req = req]
       IN  IF EmptyPasswordRejected(req)
           THEN /\ call' = [call EXCEPT ![c] = [cur EXCEPT !.pc = "done",
                     !.err = NewError(ErrorEmptyPassword,
                                      "ldap: empty password not allowed by the client")]]
                /\ UNCHANGED connVars
           ELSE doRequest(c, cur, appendTo(req), req.AllowEmptyPassword)
    /\ UNCHANGED <<ds, rd, enc>>

Bind(c, username, password) ==
    SimpleBind(c, "Bind", SimpleBindRequest(username, password, <<>>, FALSE))

UnauthenticatedBind(c, username) ==
    SimpleBind(c, "UnauthenticatedBind", SimpleBindRequest(username, "", <<>>, TRUE))

ExternalBind(c) ==
    /\ CanStart(c)
    /\ budget' = budget - 1
    /\ doRequest(c, [IdleCall EXCEPT !.api = "ExternalBind"], externalBindRequest, FALSE)
    /\ UNCHANGED <<ds, rd, enc>>

\* SASLBind up to sendMessage: the envelope is built with a fresh message ID
SASLBind(c, mechanism, credentials) ==
    /\ CanStart(c)
    /\ budget' = budget - 1
    /\ messageID' = messageID + 1
    /\ call' = [call EXCEPT ![c] = [IdleCall EXCEPT !.pc = "send", !.api = "SASLBind",
                  !.req = [mechanism |-> mechanism, credentials |-> credentials],
                  !.id = messageID + 1]]
    /\ UNCHANGED <<messageContexts, chans, isClosing, wire, answered, ds, rd, enc>>

SASLBindSend(c) ==
    /\ call[c].pc = "send"
    /\ sendMessage(c, call[c],
                   Envelope(call[c].id,
                            saslBindRequest(call[c].req.mechanism, call[c].req.credentials),
                            "SASLBind", FALSE))
    /\ UNCHANGED <<messageID, isClosing, answered, budget, ds, rd, enc>>

\* conn.go finishMessage: unregisters the message context
finishMessage(id) ==
    messageContexts' = messageContexts \ {id}

\* a receive on msgCtx.responses blocks until a response is there or the
\* channel is closed
CanReceive(ch) == Len(ch.buf) > 0 \/ ch.closed

\* conn.go readPacket: the packet of the next response, or a network error
\* when the channel was closed without one
readPacket(ch) ==
    IF Len(ch.buf) = 0
    THEN [packet |-> NilPacket, recvd |-> 0,
          err |-> NewError(ErrorNetwork, "ldap: response channel closed")]
    ELSE [packet |-> Head(ch.buf).Packet, recvd |-> 1, err |-> Head(ch.buf).Error]

\* SimpleBind from readPacket to its return
SimpleBindReturn(ch) ==
    LET r == readPacket(ch)
        d == SimpleBindDecode(r.packet)
    IN  IF r.err # NoErr
        THEN [packet |-> r.packet, recvd |-> r.recvd, result |-> NilResult,
              token |-> NilBytes, err |-> r.err]
        ELSE [packet |-> r.packet, recvd |-> r.recvd, result |-> d.result,
              token |-> NilBytes, err |-> d.err]

\* ExternalBind returning without a look at the result code
ExternalBindReturn_Unchecked(ch) ==
    LET r == readPacket(ch)
    IN  [packet |-> r.packet, recvd |-> r.recvd, result |-> NilResult,
         token |-> NilBytes, err |-> r.err]

\* ExternalBind from readPacket to its return
ExternalBindReturn(ch) ==
    LET r == readPacket(ch)
    IN  IF r.err # NoErr
        THEN [packet |-> r.packet, recvd |-> r.recvd, result |-> NilResult,
              token |-> NilBytes, err |-> r.err]
        ELSE [packet |-> r.packet, recvd |-> r.recvd, result |-> NilResult,
              token |-> NilBytes, err |-> ExternalBindDecode(r.packet).err]

\* SASLBind without the check that the receive got a response
SASLBindReturn_NoOkCheck(ch) ==
    LET packet == IF Len(ch.buf) = 0 THEN NilPacket ELSE Head(ch.buf).Packet
        d == SASLBindDecode(packet)
    IN  [packet |-> packet, recvd |-> IF Len(ch.buf) = 0 THEN 0 ELSE 1,
         result |-> NilResult, token |-> d.token, err |-> d.err]

\* SASLBind from its receive on msgCtx.responses to its return
SASLBindReturn(ch) ==
    IF Len(ch.buf) = 0
    THEN [packet |-> NilPacket, recvd |-> 0, result |-> NilResult, token |-> NilBytes,
          err |-> NewError(ErrorNetwork, "ldap: response channel closed")]
    ELSE LET packetResponse == Head(ch.buf)
             d == SASLBindDecode(packetResponse.Packet)
         IN  IF packetResponse.Error # NoErr
             THEN [packet |-> packetResponse.Packet, recvd |-> 1, result |-> NilResult,
                   token |-> NilBytes, err |-> packetResponse.Error]
             ELSE IF d = Panic
             THEN Panic
             ELSE [packet |-> packetResponse.Packet, recvd |-> 1, result |-> NilResult,
                   token |-> d.token, err |-> d.err]

\* the waiting call returning without a deferred finishMessage
Return_NoFinish(c, r) ==
    /\ call' = [call EXCEPT ![c] = [@ EXCEPT !.pc = "done", !.packet = r.packet,
                  !.recvd = @ + r.recvd, !.result = r.result, !.token = r.token,
                  !.err = r.err]]
    /\ chans' = [i \in DOMAIN chans \ {call[c].id} |-> chans[i]]
    /\ UNCHANGED <<messageID, messageContexts, isClosing, wire, answered, budget, ds, rd, enc>>

\* the waiting call takes its outcome r and returns; the deferred
\* finishMessage runs and the message context is dropped
Return(c, r) ==
    /\ call' = [call EXCEPT ![c] = [@ EXCEPT !.pc = "done", !.packet = r.packet,
                  !.recvd = @ + r.recvd, !.result = r.result, !.token = r.token,
                  !.err = r.err, !.finished = @ + 1]]
    /\ chans' = [i \in DOMAIN chans \ {call[c].id} |-> chans[i]]
    /\ finishMessage(call[c].id)
    /\ UNCHANGED <<messageID, isClosing, wire, answered, budget, ds, rd, enc>>

\* the waiting call panics on the response it took: the deferred
\* finishMessage runs, and the call does not return
Crash(c) ==
    /\ call' = [call EXCEPT ![c] = [@ EXCEPT !.pc = "panic",
                  !.packet = Head(chans[call[c].id].buf).Packet,
                  !.recvd = @ + 1, !.finished = @ + 1]]
    /\ chans' = [i \in DOMAIN chans \ {call[c].id} |-> chans[i]]
    /\ finishMessage(call[c].id)
    /\ UNCHANGED <<messageID, isClosing, wire, answered, budget, ds, rd, enc>>

SimpleApis == {"Bind", "UnauthenticatedBind", "NewSimpleBindRequest", "SimpleBind"}

SimpleBindReceive(c) ==
    /\ call[c].pc = "await"
    /\ call[c].api \in SimpleApis
    /\ CanReceive(chans[call[c].id])
    /\ Return(c, SimpleBindReturn(chans[call[c].id]))

ExternalBindReceive(c) ==
    /\ call[c].pc = "await"
    /\ call[c].api = "ExternalBind"
    /\ CanReceive(chans[call[c].id])
    /\ Return(c, ExternalBindReturn(chans[call[c].id]))

SASLBindReceive(c) ==
    /\ call[c].pc = "await"
    /\ call[c].api = "SASLBind"
    /\ CanReceive(chans[call[c].id])
    /\ IF SASLBindReturn(chans[call[c].id]) = Panic
       THEN Crash(c)
       ELSE Return(c, SASLBindReturn(chans[call[c].id]))

----------------------------------------------------------------------------
(* Server and dispatcher *)

\* every answer of the server to a request
ResponsesFor(env) ==
    IF env.api = "SASLBind"
    THEN {BindResponse(env.id, code, diag, token, NoSection) :
            code \in ServerCodes, diag \in Diags, token \in Tokens}
         \cup MalformedSASLResponses(env.id)
    ELSE {BindResponse(env.id, code, diag, NilBytes, section) :
            code \in ServerCodes, diag \in Diags, section \in ControlSections}
         \cup {WithTrailer(BindResponse(env.id, 0, "", NilBytes,
                                        Section(<<"ctl_a", "bad">>)))}

\* the two answers of a server that accepts or refuses the bind
PlainResponsesFor(env) ==
    {BindResponse(env.id, 0, "", IF env.api = "SASLBind" THEN Bytes(<<7>>) ELSE NilBytes,
                  NoSection),
     BindResponse(env.id, 49, "invalid credentials", NilBytes, NoSection)}

\* the server answers the request wire[i] with packet and the dispatcher
\* routes it to the pending request of that message ID, or drops it as an
\* orphan
Deliver(i, packet) ==
    /\ ~isClosing
    /\ wire[i].id \notin answered
    /\ answered' = answered \cup {wire[i].id}
    /\ chans' = IF wire[i].id \in messageContexts
                THEN [chans EXCEPT ![wire[i].id].buf =
                        Append(@, [Packet |-> packet, Error |-> NoErr])]
                ELSE chans
    /\ UNCHANGED <<messageID, messageContexts, isClosing, wire, call, budget, ds, rd, enc>>

\* Close: the dispatcher stops, closes the response channel of every pending
\* request and empties the registry
Close ==
    /\ ~isClosing
    /\ isClosing' = TRUE
    /\ chans' = [id \in DOMAIN chans |->
                   IF id \in messageContexts THEN [chans[id] EXCEPT !.closed = TRUE]
                   ELSE chans[id]]
    /\ messageContexts' = {}
    /\ UNCHANGED <<messageID, wire, answered, call, budget, ds, rd, enc>>

\* a read error in the dispatcher: every pending request is resolved with a
\* network failure, then as Close
ReadError ==
    /\ ~isClosing
    /\ isClosing' = TRUE
    /\ chans' = [id \in DOMAIN chans |->
                   IF id \in messageContexts
                   THEN [buf |-> Append(chans[id].buf,
                                   [Packet |-> NilPacket,
                                    Error |-> NewError(ErrorNetwork, "ldap: read error")]),
                         closed |-> TRUE]
                   ELSE chans[id]]
    /\ messageContexts' = {}
    /\ UNCHANGED <<messageID, wire, answered, call, budget, ds, rd, enc>>

----------------------------------------------------------------------------
(* Search, as the drivers built on it see it *)

\* a nil []string, as distinct from an empty one
NilSlice == [nil |-> TRUE]
Slice(s) == [elems |-> s]
SliceLen(x) == IF x = NilSlice THEN 0 ELSE Len(x.elems)

NilEntry == [nil |-> TRUE]

\* search.go NewSearchRequest, for the arguments the drivers give it
NewSearchRequest(BaseDN, Scope, DerefAliases, SizeLimit, TimeLimit, TypesOnly, Filter, Attributes, Controls) ==
    [BaseDN |-> BaseDN, Scope |-> Scope, DerefAliases |-> DerefAliases,
     SizeLimit |-> SizeLimit, TimeLimit |-> TimeLimit, TypesOnly |-> TypesOnly,
     Filter |-> Filter, Attributes |-> Attributes, Controls |-> Controls]

\* what Search returns: a SearchResult and a nil error, or an error
SearchOK(entries, referrals, controls) ==
    [err |-> NoErr,
     result |-> [Entries |-> entries, Referrals |-> referrals, Controls |-> controls]]
SearchFailed(err, result) == [err |-> err, result |-> result]

SearchErrors ==
    {SearchFailed(NewError(ErrorNetwork, "ldap: response channel closed"), NilResult),
     SearchFailed(NewError(32, "no such object"),
                  [Entries |-> <<"partial">>, Referrals |-> <<>>, Controls |-> <<>>])}

----------------------------------------------------------------------------
(* RootDSE *)

\* the bounds of the caller's attribute list and of the entries of a result
MaxFields == 2
MaxEntries == 3

AttributeNames == {"dnsHostName", "subschemaSubentry"}
EntryValues == {[DN |-> ""], [DN |-> "cn=other"]}

SeqsUpTo(S, n) == UNION {[1..k -> S] : k \in 0..n}

\* the attribute lists a caller can give: none, an empty one, or names
FieldLists == {NilSlice} \cup {Slice(f) : f \in SeqsUpTo(AttributeNames, MaxFields)}

RootDSEOutcomes ==
    SearchErrors \cup {SearchOK(es, <<>>, <<>>) : es \in SeqsUpTo(EntryValues, MaxEntries)}

RdIdle == [pc |-> "idle", fields |-> NilSlice, search |-> NoReq, searches |-> 0,
           out |-> NoReq, entry |-> NilEntry, err |-> NoErr]

\* RootDSE up to its call of Search: the request it builds
RootDSERequest(fields) ==
    NewSearchRequest("", "ScopeBaseObject", "NeverDerefAliases", 0, 0, FALSE,
                     "(objectclass=*)",
                     IF SliceLen(fields) = 0 THEN NilSlice ELSE fields,
                     NilSlice)

\* RootDSE accepting any result that has a first entry
RootDSEResult_AtLeastOne(out) ==
    IF out.err # NoErr
    THEN [entry |-> NilEntry, err |-> out.err]
    ELSE IF Len(out.result.Entries) < 1
    THEN [entry |-> NilEntry, err |-> Errorf("Cannot get RootDSE")]
    ELSE [entry |-> out.result.Entries[1], err |-> NoErr]

\* RootDSE after Search returned: the (entry, err) it returns
RootDSEResult(out) ==
    IF out.err # NoErr
    THEN [entry |-> NilEntry, err |-> out.err]
    ELSE IF Len(out.result.Entries) # 1
    THEN [entry |-> NilEntry, err |-> Errorf("Cannot get RootDSE")]
    ELSE [entry |-> out.result.Entries[1], err |-> NoErr]

RootDSE(fields) ==
    /\ rd.pc = "idle"
    /\ rd' = [rd EXCEPT !.pc = "search", !.fields = fields,
                !.search = RootDSERequest(fields), !.searches = @ + 1]
    /\ UNCHANGED <<bindVars, ds, enc>>

RootDSESearchReturns(out) ==
    /\ rd.pc = "search"
    /\ LET r == RootDSEResult(out)
       IN  rd' = [rd EXCEPT !.pc = "done", !.out = out, !.entry = r.entry, !.err = r.err]
    /\ UNCHANGED <<bindVars, ds, enc>>

----------------------------------------------------------------------------
(* SearchWithDirSync *)

\* the Search calls one SearchWithDirSync call may issue
MaxRounds == 3

ControlTypeMicrosoftDirSync == "1.2.840.113556.1.4.841"

\* the typed controls: the DirSync request and response controls, and a
\* control of another type, which may sit under any OID
DirSyncRequestControl(flags, cookie) ==
    [ControlType |-> ControlTypeMicrosoftDirSync, type |-> "ControlMicrosoftDirSync",
     Flags |-> flags, Cookie |-> cookie]
DirSyncResponseControl(cookie, more) ==
    [ControlType |-> ControlTypeMicrosoftDirSync,
     type |-> "ControlMicrosoftDirSyncResponse", Cookie |-> cookie, MoreResults |-> more]
ControlString(oid) == [ControlType |-> oid, type |-> "ControlString"]

OtherControl == ControlString("2.16.840.1.113730.3.4.2")

\* control.go NewControlMicrosoftDirSync
NewControlMicrosoftDirSync == DirSyncRequestControl(0, NilBytes)

\* control.go (*ControlMicrosoftDirSync).SetCookie
SetCookie(control, cookie) == [control EXCEPT !.Cookie = cookie]

\* control.go FindControl: the place of the first control of the type, 0 for nil
FindControl(controls, controlType) ==
    IF \E i \in 1..Len(controls) : controls[i].ControlType = controlType
    THEN CHOOSE i \in 1..Len(controls) :
            /\ controls[i].ControlType = controlType
            /\ \A j \in 1..(i - 1) : controls[j].ControlType # controlType
    ELSE 0

\* what the caller passes
DirSyncCookies == {NilBytes, Bytes(<<5>>)}
DirSyncFlags == {0, 1}
RequestControlLists ==
    {<<>>, <<OtherControl>>,
     <<OtherControl, DirSyncRequestControl(9, Bytes(<<9>>))>>,
     <<ControlString(ControlTypeMicrosoftDirSync)>>}

\* what the server answers in a round: r numbers the round
ServerCookies == {NilBytes, Bytes(<<>>), Bytes(<<1>>), Bytes(<<2>>)}
MoreResultsValues == {0, 1}
RoundEntries(r) == {<<>>, <<[DN |-> "cn=a", round |-> r], [DN |-> "cn=b", round |-> r]>>}
RoundReferrals(r) == {<<>>, <<[url |-> "ldap://other", round |-> r]>>}
RoundControls ==
    {<<>>, <<OtherControl>>, <<ControlString(ControlTypeMicrosoftDirSync)>>}
    \cup {<<OtherControl, DirSyncResponseControl(c, m)>> :
            c \in ServerCookies, m \in MoreResultsValues}

DirSyncOutcomes(r) ==
    SearchErrors
    \cup {SearchOK(es, rs, cs) :
            es \in RoundEntries(r), rs \in RoundReferrals(r), cs \in RoundControls}

EmptyResult == [Entries |-> <<>>, Referrals |-> <<>>, Controls |-> <<>>]
NoRet == [result |-> NilResult, cookie |-> NilBytes, err |-> NoErr]

\* the successive SearchWithDirSync calls on one request in RepeatSpec
MaxDirSyncCalls == 2

\* Controls: searchRequest.Controls; ctl: the place of dirSyncControl in it;
\* rounds: the Search calls issued, each with the request's controls at the
\* call and what Search returned; orig: the request's controls before its
\* first call; left: the calls that may still be started on the request
DsIdle ==
    [pc |-> "idle", Controls |-> <<>>, ctl |-> 0, cookie |-> NilBytes, flags |-> 0,
     searchResult |-> NilResult, newCookie |-> NilBytes, rounds |-> <<>>, ret |-> NoRet,
     orig |-> <<>>, left |-> 1]

\* a DirSync control appended whatever the request holds
AttachDirSyncControl_Append(controls, cookie, flags) ==
    [err |-> NoErr,
     Controls |-> Append(controls,
                    [SetCookie(NewControlMicrosoftDirSync, cookie) EXCEPT !.Flags = flags]),
     ctl |-> Len(controls) + 1]

\* the request's controls once SearchWithDirSync has found or appended its
\* DirSync control and set the cookie and the flags in it
AttachDirSyncControl(controls, cookie, flags) ==
    LET control == FindControl(controls, ControlTypeMicrosoftDirSync)
    IN  IF control = 0
        THEN [err |-> NoErr,
              Controls |-> Append(controls,
                             [SetCookie(NewControlMicrosoftDirSync, cookie)
                                EXCEPT !.Flags = flags]),
              ctl |-> Len(controls) + 1]
        ELSE IF controls[control].type # "ControlMicrosoftDirSync"
        THEN [err |-> Errorf("expected dirSync control to be of type *ControlMicrosoftDirSync"),
              Controls |-> controls, ctl |-> 0]
        ELSE [err |-> NoErr,
              Controls |-> [controls EXCEPT ![control] =
                              [SetCookie(@, cookie) EXCEPT !.Flags = flags]],
              ctl |-> control]

\* SearchWithDirSync up to its loop, on a new request or once more on the
\* request of the call that returned
SearchWithDirSync(controls, cookie, flags) ==
    /\ ds.left > 0
    /\ \/ ds.pc = "idle"
       \/ ds.pc = "done" /\ controls = ds.Controls
    /\ LET a == AttachDirSyncControl(controls, cookie, flags)
           cur == [DsIdle EXCEPT !.cookie = cookie, !.flags = flags,
                     !.Controls = a.Controls, !.ctl = a.ctl, !.left = ds.left - 1,
                     !.orig = IF ds.pc = "idle" THEN controls ELSE ds.orig]
       IN  IF a.err # NoErr
           THEN ds' = [cur EXCEPT !.pc = "done",
                         !.ret = [result |-> NilResult, cookie |-> NilBytes, err |-> a.err]]
           ELSE ds' = [cur EXCEPT !.pc = "search", !.searchResult = EmptyResult]
    /\ UNCHANGED <<bindVars, rd, enc>>

\* a round that replaces the accumulated result by the round's
Accumulate_Replace(searchResult, result) ==
    [Entries |-> result.Entries,
     Referrals |-> result.Referrals,
     Controls |-> result.Controls]

\* the round's entries, referrals and controls appended to the accumulator
Accumulate(searchResult, result) ==
    [Entries |-> searchResult.Entries \o result.Entries,
     Referrals |-> searchResult.Referrals \o result.Referrals,
     Controls |-> searchResult.Controls \o result.Controls]

\* the cookie of the next round left as it was
NextRoundCookie_Stale(old, newCookie) == old

\* the cookie the request's control carries in the next round
NextRoundCookie(old, newCookie) == newCookie

\* a loop that never ends on the more-results indicator
LastRound_Never(dirSyncResponse) == FALSE

\* the loop ends when the response has no more results
LastRound(dirSyncResponse) == dirSyncResponse.MoreResults = 0

Failed(d, err) ==
    [d EXCEPT !.pc = "done",
              !.ret = [result |-> d.searchResult, cookie |-> NilBytes, err |-> err]]

\* one turn of the loop for what Search returned: the call after it
DirSyncRound(d0, out) ==
    LET d == [d0 EXCEPT !.rounds = Append(@, [Controls |-> d0.Controls, out |-> out])]
    IN  IF out.err # NoErr
        THEN Failed(d, out.err)
        ELSE IF out.result = NilResult
        THEN Failed(d, NewError(ErrorNetwork, "ldap: packet not received"))
        ELSE
        LET acc == [d EXCEPT !.searchResult = Accumulate(d.searchResult, out.result)]
            dirSyncResult == FindControl(out.result.Controls, ControlTypeMicrosoftDirSync)
        IN  IF dirSyncResult = 0
            THEN Failed(acc, NewError(ErrorNetwork,
                                      "ldap: response is missing DirSync control"))
            ELSE IF out.result.Controls[dirSyncResult].type
                        # "ControlMicrosoftDirSyncResponse"
            THEN [acc EXCEPT !.pc = "panic"]
            ELSE
            LET dirSyncResponse == out.result.Controls[dirSyncResult]
                got == [acc EXCEPT !.newCookie = dirSyncResponse.Cookie]
            IN  IF BytesLen(dirSyncResponse.Cookie) = 0
                THEN Failed(got, NewError(ErrorNetwork,
                                  "ldap: empty cookie in DirSync control response"))
                ELSE IF LastRound(dirSyncResponse)
                THEN [got EXCEPT !.pc = "done",
                        !.ret = [result |-> got.searchResult,
                                 cookie |-> got.newCookie, err |-> NoErr]]
                ELSE [got EXCEPT !.Controls[got.ctl] =
                        SetCookie(@, NextRoundCookie(@.Cookie, got.newCookie))]

\* the loop calls Search and handles what it returns
DirSyncSearch(out) ==
    /\ ds.pc = "search"
    /\ Len(ds.rounds) < MaxRounds
    /\ ds' = DirSyncRound(ds, out)
    /\ UNCHANGED <<bindVars, rd, enc>>


----------------------------------------------------------------------------
(* The codec: a request envelope written as octets and read by a stub server *)

\* the longest username and password of an encoded request
MaxLen == 2

ClassBits(class) ==
    CASE class = "Universal" -> 0
      [] class = "Application" -> 64
      [] class = "Context" -> 128
      [] class = "Private" -> 192
ClassOfBits(bits) ==
    CASE bits = 0 -> "Universal"
      [] bits = 1 -> "Application"
      [] bits = 2 -> "Context"
      [] bits = 3 -> "Private"
TypeBits(type) == IF type = "Constructed" THEN 32 ELSE 0

\* the length octets: short form below 128, else the long form
EncodeLength(n) ==
    IF n < 128 THEN <<n>>
    ELSE IF n < 256 THEN <<129, n>>
    ELSE <<130, n \div 256, n % 256>>

RECURSIVE PacketBytes(_)
RECURSIVE ChildrenBytes(_)
\* ber (*Packet).Bytes: identifier octet, length, then the content octets of
\* a primitive or the octets of the children of a constructed packet
PacketBytes(p) ==
    LET content == IF p.TagType = "Constructed" THEN ChildrenBytes(p.Children)
                   ELSE p.Data
    IN  <<ClassBits(p.ClassType) + TypeBits(p.TagType) + p.Tag>>
        \o EncodeLength(Len(content)) \o content
ChildrenBytes(children) ==
    IF children = <<>> THEN <<>>
    ELSE PacketBytes(Head(children)) \o ChildrenBytes(Tail(children))

NilValue == [nil |-> TRUE]

RECURSIVE DecodePackets(_)
\* ber.DecodePacket on each packet of a run of octets: class, type and tag of
\* the identifier octet, the content octets as Data, the children of a
\* constructed packet, and a Value for the universal integer and octet string
DecodePackets(bytes) ==
    IF bytes = <<>> THEN <<>>
    ELSE
    LET class == ClassOfBits(bytes[1] \div 64)
        type == IF (bytes[1] \div 32) % 2 = 1 THEN "Constructed" ELSE "Primitive"
        tag == bytes[1] % 32
        header == IF bytes[2] < 128 THEN 2 ELSE 2 + (bytes[2] - 128)
        length == IF bytes[2] < 128 THEN bytes[2]
                  ELSE DecodeInteger(SubSeq(bytes, 3, header))
        content == SubSeq(bytes, header + 1, header + length)
        rest == SubSeq(bytes, header + length + 1, Len(bytes))
        packet == IF type = "Constructed"
                  THEN [ClassType |-> class, TagType |-> type, Tag |-> tag,
                        Children |-> DecodePackets(content)]
                  ELSE [ClassType |-> class, TagType |-> type, Tag |-> tag,
                        Data |-> content,
                        Value |-> IF class = "Universal" /\ tag = TagInteger
                                  THEN [int |-> DecodeInteger(content)]
                                  ELSE IF class = "Universal" /\ tag = TagOctetString
                                  THEN [str |-> content]
                                  ELSE NilValue]
    IN  <<packet>> \o DecodePackets(rest)

DecodePacket(bytes) == DecodePackets(bytes)[1]

\* the envelope of a request: the message ID, then what the request appends
RequestPacket(id, children) ==
    Encode("Universal", "Constructed", TagSequence,
           <<NewInteger("Universal", "Primitive", TagInteger, id)>> \o children)

\* what the caller passes: the strings as their bytes, a control as the
\* packet its Encode gives
StringBytes == {97, 98}
EncStrings == SeqsUpTo(StringBytes, MaxLen)
EncodedControl(oid) ==
    Encode("Universal", "Constructed", TagSequence,
           <<NewString("Universal", "Primitive", TagOctetString, oid)>>)
EncControlLists ==
    {<<>>, <<EncodedControl(<<49>>)>>, <<EncodedControl(<<49>>), EncodedControl(<<50, 51>>)>>}
EncMessageIDs == {1, 200}

EncIdle == [pc |-> "idle", req |-> NoReq, id |-> 0, bytes |-> <<>>, packet |-> NilPacket]

\* the envelope of a simple bind is built and written to the transport
WriteSimpleBind(id, req) ==
    /\ enc.pc = "idle"
    /\ enc' = [enc EXCEPT !.pc = "written", !.req = req, !.id = id,
                 !.bytes = PacketBytes(RequestPacket(id, appendTo(req)))]
    /\ UNCHANGED <<bindVars, ds, rd>>

\* the stub server reads the envelope
StubServerRead ==
    /\ enc.pc = "written"
    /\ enc' = [enc EXCEPT !.pc = "decoded", !.packet = DecodePacket(enc.bytes)]
    /\ UNCHANGED <<bindVars, ds, rd>>

----------------------------------------------------------------------------
(* Specifications *)

Init ==
    /\ messageID = 0
    /\ messageContexts = {}
    /\ chans = <<>>
    /\ isClosing = FALSE
    /\ wire = <<>>
    /\ answered = {}
    /\ call = [c \in Callers |-> IdleCall]
    /\ budget = MaxCalls
    /\ ds = DsIdle
    /\ rd = RdIdle
    /\ enc = EncIdle

\* concurrent callers, each request answered by accept or refuse
Next ==
    \/ \E c \in Callers, u \in Usernames, p \in Passwords : Bind(c, u, p)
    \/ \E c \in Callers, u \in Usernames : UnauthenticatedBind(c, u)
    \/ \E c \in Callers, u \in Usernames, p \in Passwords :
         SimpleBind(c, "NewSimpleBindRequest", NewSimpleBindRequest(u, p, <<>>))
    \/ \E c \in Callers, u \in Usernames, p \in Passwords, allow \in BOOLEAN :
         SimpleBind(c, "SimpleBind", SimpleBindRequest(u, p, <<>>, allow))
    \/ \E c \in Callers : ExternalBind(c)
    \/ \E c \in Callers, m \in Mechanisms, cr \in Credentials : SASLBind(c, m, cr)
    \/ \E c \in Callers : SASLBindSend(c)
    \/ \E c \in Callers : SimpleBindReceive(c)
    \/ \E c \in Callers : ExternalBindReceive(c)
    \/ \E c \in Callers : SASLBindReceive(c)
    \/ \E i \in 1..Len(wire) : \E packet \in PlainResponsesFor(wire[i]) : Deliver(i, packet)
    \/ Close
    \/ ReadError

Spec == Init /\ [][Next]_vars

\* a caller blocked on its response channel runs once a response is there or
\* the channel is closed
Fairness ==
    \A c \in Callers :
        /\ WF_vars(SimpleBindReceive(c))
        /\ WF_vars(ExternalBindReceive(c))
        /\ WF_vars(SASLBindReceive(c))

\* the concurrent callers with one request of each kind of bind, under the
\* fairness of the blocked receives
LiveNext ==
    \/ \E c \in Callers, u \in Usernames, p \in Passwords : Bind(c, u, p)
    \/ \E c \in Callers : ExternalBind(c)
    \/ \E c \in Callers, m \in Mechanisms, cr \in Credentials : SASLBind(c, m, cr)
    \/ \E c \in Callers : SASLBindSend(c)
    \/ \E c \in Callers : SimpleBindReceive(c)
    \/ \E c \in Callers : ExternalBindReceive(c)
    \/ \E c \in Callers : SASLBindReceive(c)
    \/ \E i \in 1..Len(wire) : \E packet \in PlainResponsesFor(wire[i]) : Deliver(i, packet)
    \/ Close
    \/ ReadError

FairSpec == Init /\ [][LiveNext]_vars /\ Fairness

\* one caller, one call after the other, every answer the server can give
SeqCallers == {1}

SeqInit ==
    /\ messageID = 0
    /\ messageContexts = {}
    /\ chans = <<>>
    /\ isClosing = FALSE
    /\ wire = <<>>
    /\ answered = {}
    /\ call = [c \in Callers |-> IdleCall]
    /\ budget = MaxSeqCalls
    /\ ds = DsIdle
    /\ rd = RdIdle
    /\ enc = EncIdle

SeqNext ==
    \/ \E c \in SeqCallers, u \in Usernames, p \in Passwords : Bind(c, u, p)
    \/ \E c \in SeqCallers, u \in Usernames : UnauthenticatedBind(c, u)
    \/ \E c \in SeqCallers, u \in Usernames, p \in Passwords, cs \in ReqControlLists :
         SimpleBind(c, "NewSimpleBindRequest", NewSimpleBindRequest(u, p, cs))
    \/ \E c \in SeqCallers, u \in Usernames, p \in Passwords, cs \in ReqControlLists,
          allow \in BOOLEAN :
         SimpleBind(c, "SimpleBind", SimpleBindRequest(u, p, cs, allow))
    \/ \E c \in SeqCallers : ExternalBind(c)
    \/ \E c \in SeqCallers, m \in Mechanisms, cr \in Credentials : SASLBind(c, m, cr)
    \/ \E c \in SeqCallers : SASLBindSend(c)
    \/ \E c \in SeqCallers : SimpleBindReceive(c)
    \/ \E c \in SeqCallers : ExternalBindReceive(c)
    \/ \E c \in SeqCallers : SASLBindReceive(c)
    \/ \E i \in 1..Len(wire) : \E packet \in ResponsesFor(wire[i]) : Deliver(i, packet)
    \/ Close
    \/ ReadError

SeqSpec == SeqInit /\ [][SeqNext]_vars

\* one RootDSE call against a stub Search
RootDSENext ==
    \/ \E fields \in FieldLists : RootDSE(fields)
    \/ \E out \in RootDSEOutcomes : RootDSESearchReturns(out)

RootDSESpec == Init /\ [][RootDSENext]_vars

\* one SearchWithDirSync call against a stub Search
DirSyncNext ==
    \/ \E controls \in RequestControlLists, cookie \in DirSyncCookies,
          flags \in DirSyncFlags : SearchWithDirSync(controls, cookie, flags)
    \/ \E out \in DirSyncOutcomes(Len(ds.rounds) + 1) : DirSyncSearch(out)

DirSyncSpec == Init /\ [][DirSyncNext]_vars

\* successive SearchWithDirSync calls on one request, against a stub Search
\* whose results carry controls only
RepeatControlLists ==
    RequestControlLists
    \cup {<<DirSyncRequestControl(9, Bytes(<<9>>)), OtherControl>>}

RepeatOutcomes ==
    SearchErrors \cup {SearchOK(<<>>, <<>>, cs) : cs \in RoundControls}

RepeatInit ==
    /\ messageID = 0
    /\ messageContexts = {}
    /\ chans = <<>>
    /\ isClosing = FALSE
    /\ wire = <<>>
    /\ answered = {}
    /\ call = [c \in Callers |-> IdleCall]
    /\ budget = MaxCalls
    /\ ds = [DsIdle EXCEPT !.left = MaxDirSyncCalls]
    /\ rd = RdIdle
    /\ enc = EncIdle

RepeatNext ==
    \/ \E controls \in RepeatControlLists \cup {ds.Controls}, cookie \in DirSyncCookies,
          flags \in DirSyncFlags : SearchWithDirSync(controls, cookie, flags)
    \/ \E out \in RepeatOutcomes : DirSyncSearch(out)

RepeatSpec == RepeatInit /\ [][RepeatNext]_vars

\* what Search returns in round r from a server that ends the exchange in
\* round MaxRounds at the latest: there it does not answer more-results 1
\* with a cookie
PatientOutcomes(r) ==
    IF r < MaxRounds THEN RepeatOutcomes
    ELSE SearchErrors
         \cup {SearchOK(<<>>, <<>>, cs) :
                 cs \in {<<>>, <<OtherControl>>}
                        \cup {<<OtherControl, DirSyncResponseControl(c, 0)>> :
                                c \in ServerCookies}
                        \cup {<<OtherControl, DirSyncResponseControl(NilBytes, 1)>>,
                              <<OtherControl, DirSyncResponseControl(Bytes(<<>>), 1)>>}}

\* the Search call of the loop returns
SearchReturns ==
    \E out \in PatientOutcomes(Len(ds.rounds) + 1) : DirSyncSearch(out)

\* one SearchWithDirSync call whose every Search returns
TermNext ==
    \/ \E controls \in RequestControlLists, cookie \in DirSyncCookies,
          flags \in DirSyncFlags : SearchWithDirSync(controls, cookie, flags)
    \/ SearchReturns

TermSpec == Init /\ [][TermNext]_vars /\ WF_vars(SearchReturns)

\* one simple bind request through the codec to a stub server
CodecNext ==
    \/ \E id \in EncMessageIDs, u \in EncStrings, p \in EncStrings, cs \in EncControlLists :
         WriteSimpleBind(id, SimpleBindRequest(u, p, cs, TRUE))
    \/ StubServerRead

CodecSpec == Init /\ [][CodecNext]_vars

----------------------------------------------------------------------------
(* Properties of the bind family *)

\* the password of a simple bind request on the wire
IsSimpleBind(env) == env.children[1].Children[3].Tag = 0
WirePassword(env) == env.children[1].Children[3].Value

\* the result code and the diagnostic message of a response
ServerCode(packet) == packet.Children[2].Children[1].Int64
ServerDiag(packet) == packet.Children[2].Children[3].String

\* the step starts a call of c
Starts(c) ==
    /\ budget' = budget - 1
    /\ call[c].pc \in {"idle", "done"}
    /\ \A d \in Callers \ {c} : call'[d] = call[d]

\* C1: a SimpleBind call with an empty password and no opt-in returns at once
\* a nil result and an ErrorEmptyPassword error, allocates no message ID,
\* registers nothing and writes nothing: the connection is as it was.
C1_EmptyPasswordRefused ==
    [][\A c \in Callers :
         (/\ Starts(c)
          /\ call'[c].api \in SimpleApis
          /\ call'[c].req.Password = ""
          /\ ~call'[c].req.AllowEmptyPassword)
         => /\ call'[c].pc = "done"
            /\ call'[c].result = NilResult
            /\ call'[c].err.kind = "ldap"
            /\ call'[c].err.code = ErrorEmptyPassword
            /\ call'[c].sent = 0
            /\ call'[c].id = 0
            /\ UNCHANGED connVars]_vars

C1_Witness ==
    \E c \in Callers :
        /\ call[c].pc = "done"
        /\ call[c].api = "SimpleBind"
        /\ call[c].req.Password = ""
        /\ ~call[c].req.AllowEmptyPassword
        /\ call[c].err.kind = "ldap"
        /\ call[c].err.code = ErrorEmptyPassword
        /\ messageContexts # {}
        /\ Len(wire) = 1

\* C2: a simple bind request with an empty password is on the wire only if
\* UnauthenticatedBind wrote it, or SimpleBind on a request with
\* AllowEmptyPassword set: never Bind, never SimpleBind on a request of
\* NewSimpleBindRequest.
C2_EmptyPasswordOnlyByOptIn ==
    \A i \in 1..Len(wire) :
        (IsSimpleBind(wire[i]) /\ WirePassword(wire[i]) = "")
        => \/ wire[i].api = "UnauthenticatedBind"
           \/ wire[i].api = "SimpleBind" /\ wire[i].allow

C2_Witness ==
    \E i, j \in 1..Len(wire) :
        /\ wire[i].api = "UnauthenticatedBind"
        /\ IsSimpleBind(wire[i])
        /\ WirePassword(wire[i]) = ""
        /\ wire[j].api \in {"Bind", "NewSimpleBindRequest"}
        /\ WirePassword(wire[j]) # ""

\* a submitted request the server has not answered
Outstanding(c) == call[c].pc = "await" /\ call[c].id \notin answered

\* C6: when the connection is closed while a bind request is outstanding,
\* the waiting call eventually returns a network error, with a nil result
\* and a nil token.
C6_CloseResolvesOutstanding ==
    \A c \in Callers :
        (isClosing /\ Outstanding(c))
        ~> (/\ call[c].pc = "done"
            /\ call[c].err.kind = "ldap"
            /\ call[c].err.code = ErrorNetwork
            /\ call[c].result = NilResult
            /\ call[c].token = NilBytes)

C6_Witness ==
    \E c \in Callers :
        /\ call[c].pc = "done"
        /\ call[c].api = "SASLBind"
        /\ call[c].sent = 1
        /\ call[c].id \notin answered
        /\ isClosing
        /\ call[c].err = NewError(ErrorNetwork, "ldap: response channel closed")
        /\ call[c].token = NilBytes

\* the response has the shape of a SASL bind response
WellFormedSASL(packet) ==
    /\ packet # NilPacket
    /\ Len(packet.Children) >= 2
    /\ packet.Children[2] # NilPacket
    /\ packet.Children[2].ClassType = "Application"
    /\ packet.Children[2].TagType = "Constructed"
    /\ Len(packet.Children[2].Children) >= 3
    /\ packet.Children[2].Children[1].Type = "int64"
    /\ packet.Children[2].Children[3].Type = "string"

\* C7: SASLBind fails for every non-zero result code of a well-formed
\* response, and returns the token with a nil error only for result code 0.
C7_SASLNonZeroCodeFails ==
    \A c \in Callers :
        (call[c].pc = "done" /\ call[c].api = "SASLBind" /\ WellFormedSASL(call[c].packet))
        => /\ ServerCode(call[c].packet) # 0 => call[c].err # NoErr
           /\ call[c].err = NoErr => ServerCode(call[c].packet) = 0

\* every control of the response's controls section decodes
ControlsDecode(packet) ==
    Len(packet.Children) = 3 =>
        \A i \in 1..Len(packet.Children[3].Children) :
            packet.Children[3].Children[i] # "bad"

\* C8: SimpleBind and ExternalBind write one request and take one response;
\* when the response was received and its controls decode, the error is nil
\* exactly for result code 0, and else carries the code and the diagnostic
\* message of the server.
C8_OneRoundTripAndResultCode ==
    \A c \in Callers :
        call[c].api \in SimpleApis \cup {"ExternalBind"}
        => /\ call[c].sent <= 1
           /\ call[c].recvd <= call[c].sent
           /\ Cardinality({i \in 1..Len(wire) : wire[i].id = call[c].id}) = call[c].sent
           /\ call[c].pc = "await" => call[c].sent = 1 /\ call[c].recvd = 0
           /\ (/\ call[c].pc = "done"
               /\ call[c].packet # NilPacket
               /\ call[c].api \in SimpleApis => ControlsDecode(call[c].packet))
              => /\ call[c].sent = 1
                 /\ call[c].recvd = 1
                 /\ call[c].err = NoErr <=> ServerCode(call[c].packet) = 0
                 /\ ServerCode(call[c].packet) # 0 =>
                        call[c].err = NewError(ServerCode(call[c].packet),
                                               ServerDiag(call[c].packet))

C8_Witness ==
    \E c \in Callers :
        /\ call[c].pc = "done"
        /\ call[c].api = "ExternalBind"
        /\ call[c].packet # NilPacket
        /\ ServerCode(call[c].packet) = 49
        /\ call[c].err = NewError(49, "invalid credentials")
        /\ call[c].sent = 1
        /\ call[c].recvd = 1

\* C9: a SimpleBind with an empty password and the opt-in is not refused: on
\* an open connection it writes exactly one request, and an answer with
\* result code 0 and no controls section gives a nil error and a result
\* whose Controls list is empty.
C9_OptInEmptyPasswordBinds ==
    \A c \in Callers :
        (/\ call[c].api \in SimpleApis
         /\ call[c].req.Password = ""
         /\ call[c].req.AllowEmptyPassword)
        => /\ \/ /\ call[c].sent = 1
                 /\ Cardinality({i \in 1..Len(wire) :
                        /\ wire[i].id = call[c].id
                        /\ IsSimpleBind(wire[i])
                        /\ WirePassword(wire[i]) = ""}) = 1
              \/ /\ call[c].sent = 0
                 /\ call[c].pc = "done"
                 /\ call[c].err = NewError(ErrorNetwork, "ldap: connection closed")
           /\ (/\ call[c].pc = "done"
               /\ call[c].packet # NilPacket
               /\ Len(call[c].packet.Children) = 2
               /\ ServerCode(call[c].packet) = 0)
              => /\ call[c].err = NoErr
                 /\ call[c].result # NilResult
                 /\ call[c].result.Controls = <<>>

C9_Witness ==
    \E c \in Callers :
        /\ call[c].pc = "done"
        /\ call[c].api = "SimpleBind"
        /\ call[c].req.Password = ""
        /\ call[c].req.AllowEmptyPassword
        /\ call[c].packet # NilPacket
        /\ Len(call[c].packet.Children) = 2
        /\ ServerCode(call[c].packet) = 0
        /\ call[c].err = NoErr
        /\ call[c].result = [Controls |-> <<>>]

\* the call holds a message ID whose request is not yet resolved
InFlight(c) == call[c].pc \in {"send", "await"}

\* no two requests in flight, and no two envelopes on the wire, share an ID
UniqueMessageIDs ==
    /\ \A c, d \in Callers : (c # d /\ InFlight(c) /\ InFlight(d)) => call[c].id # call[d].id
    /\ \A i, j \in 1..Len(wire) : i # j => wire[i].id # wire[j].id

\* C13: for every submission, SASLBind included, nothing of another
\* submission happens between the allocation of its message ID and the
\* write of its envelope: a call that holds an ID it has not yet written
\* holds the last ID allocated, no two requests in flight share an ID, and
\* the envelopes are on the wire in the order their IDs were allocated.
C13_AllocationAndWriteUnderOneExclusion ==
    /\ UniqueMessageIDs
    /\ \A c \in Callers : call[c].pc = "send" => call[c].id = messageID
    /\ \A i, j \in 1..Len(wire) : i < j => wire[i].id < wire[j].id

\* C14: a bind call whose request was registered has run finishMessage
\* exactly once when it has returned, whatever the exit path, and a call
\* whose registration failed has not run it; a call that has not returned
\* has not run it; every ID in the registry is the ID of a call that still
\* waits, so no request of a completed call is left pending.
C14_FinishMessageExactlyOnce ==
    /\ \A c \in Callers :
         /\ call[c].pc = "done" =>
              /\ call[c].finished = call[c].sent
              /\ call[c].id \notin messageContexts
         /\ call[c].pc \in {"idle", "send", "await"} => call[c].finished = 0
         /\ call[c].sent = 0 => call[c].finished = 0
    /\ \A id \in messageContexts :
         \E c \in Callers : call[c].pc = "await" /\ call[c].id = id

C14_Witness ==
    \E c \in Callers :
        /\ call[c].pc = "done"
        /\ call[c].api \in SimpleApis
        /\ call[c].err = Errorf("failed to decode child control")
        /\ call[c].sent = 1
        /\ call[c].finished = 1
        /\ call[c].id = 2
        /\ messageContexts = {}
        /\ ~isClosing

\* C16: SimpleBind decodes the controls of a response exactly when the
\* envelope has three children, in the order received, and looks at the
\* result code only once all have decoded: a control that fails to decode
\* gives a nil result and the decode error whatever the result code, and
\* else the result is non-nil and holds the decoded controls, also when the
\* result code is not zero.
C16_ControlsDecodedBeforeResultCode ==
    \A c \in Callers :
        (call[c].pc = "done" /\ call[c].api \in SimpleApis /\ call[c].packet # NilPacket)
        => LET packet == call[c].packet
               raw == IF Len(packet.Children) = 3 THEN packet.Children[3].Children
                      ELSE <<>>
           IN  IF \E i \in 1..Len(raw) : raw[i] = "bad"
               THEN /\ call[c].result = NilResult
                    /\ call[c].err = Errorf("failed to decode child control")
               ELSE /\ call[c].result # NilResult
                    /\ Len(call[c].result.Controls) = Len(raw)
                    /\ \A i \in 1..Len(raw) :
                         call[c].result.Controls[i] = [ControlType |-> raw[i]]
                    /\ call[c].err = NoErr <=> ServerCode(packet) = 0
                    /\ ServerCode(packet) # 0 => call[c].err.kind = "ldap"

C16_Witness ==
    \E c \in Callers :
        /\ call[c].pc = "done"
        /\ call[c].api = "Bind"
        /\ call[c].packet # NilPacket
        /\ Len(call[c].packet.Children) = 3
        /\ ServerCode(call[c].packet) = 49
        /\ call[c].result = [Controls |-> <<[ControlType |-> "ctl_a"],
                                            [ControlType |-> "ctl_b"]>>]
        /\ call[c].err = NewError(49, "invalid credentials")

\* C17: a SASLBind call that took a response which has not the shape of a
\* SASL bind response (nil packet, fewer than two children, a nil, a
\* non-application or a non-constructed second child, fewer than three
\* fields, a result code that is no int64 or a diagnostic message that is no
\* string) returns a failure with a nil token: it does not succeed and it
\* does not panic.
C17_MalformedSASLResponseFails ==
    \A c \in Callers :
        (/\ call[c].api = "SASLBind"
         /\ call[c].pc \in {"done", "panic"}
         /\ call[c].recvd = 1
         /\ ~WellFormedSASL(call[c].packet))
        => /\ call[c].pc = "done"
           /\ call[c].err # NoErr
           /\ call[c].token = NilBytes

----------------------------------------------------------------------------
(* Properties of RootDSE *)

\* C10: RootDSE returns an entry and a nil error exactly when its one Search
\* succeeds with exactly one entry, and then that entry; any other number
\* of entries fails, a Search error is returned as it is, and the Search
\* has an empty base DN, base-object scope, the filter (objectclass=*) and
\* the caller's attributes in order, or none when the caller gave none.
C10_RootDSEExactlyOneEntry ==
    /\ rd.pc # "idle" =>
         /\ rd.searches = 1
         /\ rd.search.BaseDN = ""
         /\ rd.search.Scope = "ScopeBaseObject"
         /\ rd.search.Filter = "(objectclass=*)"
         /\ rd.search.Attributes =
              IF rd.fields = NilSlice \/ rd.fields = Slice(<<>>) THEN NilSlice ELSE rd.fields
    /\ rd.pc = "done" =>
         /\ (rd.err = NoErr /\ rd.entry # NilEntry)
              <=> (rd.out.err = NoErr /\ Len(rd.out.result.Entries) = 1)
         /\ rd.err = NoErr => rd.entry = rd.out.result.Entries[1]
         /\ rd.err # NoErr => rd.entry = NilEntry
         /\ rd.out.err # NoErr => rd.err = rd.out.err
         /\ (rd.out.err = NoErr /\ Len(rd.out.result.Entries) # 1) =>
                rd.err = Errorf("Cannot get RootDSE")

C10_Witness ==
    /\ rd.pc = "done"
    /\ rd.fields = Slice(<<"subschemaSubentry", "dnsHostName">>)
    /\ rd.search.Attributes = Slice(<<"subschemaSubentry", "dnsHostName">>)
    /\ rd.out.err = NoErr
    /\ Len(rd.out.result.Entries) = 1
    /\ rd.entry = [DN |-> ""]
    /\ rd.err = NoErr

----------------------------------------------------------------------------
(* Properties of SearchWithDirSync *)

\* the DirSync control of a list of controls
DirSyncOf(controls) == controls[FindControl(controls, ControlTypeMicrosoftDirSync)]

\* Search returned a result in the round
RoundOK(round) == round.out.err = NoErr /\ round.out.result # NilResult

\* the round's response carries a DirSync response control
HasResponseControl(round) ==
    /\ RoundOK(round)
    /\ FindControl(round.out.result.Controls, ControlTypeMicrosoftDirSync) # 0
    /\ DirSyncOf(round.out.result.Controls).type = "ControlMicrosoftDirSyncResponse"

ResponseControl(round) == DirSyncOf(round.out.result.Controls)

\* C3: after a round whose response control carries a non-empty cookie c,
\* a non-zero more-results makes the next Search carry exactly c in the
\* request's DirSync control, and more-results 0 ends the call with a nil
\* error and the final cookie c.
C3_CookieThreadedAcrossRounds ==
    \A i \in 1..Len(ds.rounds) :
        (HasResponseControl(ds.rounds[i])
         /\ BytesLen(ResponseControl(ds.rounds[i]).Cookie) > 0)
        => LET c == ResponseControl(ds.rounds[i]).Cookie
           IN  IF ResponseControl(ds.rounds[i]).MoreResults # 0
               THEN IF i < Len(ds.rounds)
                    THEN DirSyncOf(ds.rounds[i + 1].Controls).Cookie = c
                    ELSE ds.pc = "search" /\ DirSyncOf(ds.Controls).Cookie = c
               ELSE /\ i = Len(ds.rounds)
                    /\ ds.pc = "done"
                    /\ ds.ret.err = NoErr
                    /\ ds.ret.cookie = c

C3_Witness ==
    /\ ds.pc = "done"
    /\ Len(ds.rounds) = 3
    /\ ds.cookie = Bytes(<<5>>)
    /\ \A i \in 1..3 : HasResponseControl(ds.rounds[i])
    /\ DirSyncOf(ds.rounds[1].Controls).Cookie = Bytes(<<5>>)
    /\ ResponseControl(ds.rounds[1]) = DirSyncResponseControl(Bytes(<<1>>), 1)
    /\ DirSyncOf(ds.rounds[2].Controls).Cookie = Bytes(<<1>>)
    /\ ResponseControl(ds.rounds[2]) = DirSyncResponseControl(Bytes(<<2>>), 1)
    /\ DirSyncOf(ds.rounds[3].Controls).Cookie = Bytes(<<2>>)
    /\ ResponseControl(ds.rounds[3]) = DirSyncResponseControl(Bytes(<<1>>), 0)
    /\ ds.ret.cookie = Bytes(<<1>>)
    /\ ds.ret.err = NoErr

IsNetworkError(err) == err.kind = "ldap" /\ err.code = ErrorNetwork

\* C4: a round whose response control carries an empty cookie ends the call
\* with a protocol-violation error, a class apart from the network errors,
\* whatever the more-results indicator: no further Search, no final cookie.
C4_EmptyCookieIsProtocolViolation ==
    \A i \in 1..Len(ds.rounds) :
        (HasResponseControl(ds.rounds[i])
         /\ BytesLen(ResponseControl(ds.rounds[i]).Cookie) = 0)
        => /\ i = Len(ds.rounds)
           /\ ds.pc = "done"
           /\ ds.ret.cookie = NilBytes
           /\ ds.ret.err # NoErr
           /\ ~IsNetworkError(ds.ret.err)

\* the round fails: Search failed, or the response has no DirSync control, or
\* the control's cookie is empty
RoundFails(round) ==
    \/ ~RoundOK(round)
    \/ FindControl(round.out.result.Controls, ControlTypeMicrosoftDirSync) = 0
    \/ /\ HasResponseControl(round)
       /\ BytesLen(ResponseControl(round).Cookie) = 0

RECURSIVE ConcatRounds(_)
\* the results of the rounds whose Search returned without error, in order
ConcatRounds(rounds) ==
    IF rounds = <<>> THEN EmptyResult
    ELSE LET front == ConcatRounds(SubSeq(rounds, 1, Len(rounds) - 1))
             last == rounds[Len(rounds)]
         IN  IF RoundOK(last)
             THEN [Entries |-> front.Entries \o last.out.result.Entries,
                   Referrals |-> front.Referrals \o last.out.result.Referrals,
                   Controls |-> front.Controls \o last.out.result.Controls]
             ELSE front

\* C5: whenever SearchWithDirSync returns after a Search, with an error or
\* not, its result is non-nil and holds, in round order, the entries,
\* referrals and controls of the rounds whose Search returned without error;
\* a failing round is the last one, and the call returns its failure with
\* that result and a nil cookie.
C5_PartialResultOnEveryReturn ==
    /\ (ds.pc = "done" /\ Len(ds.rounds) >= 1) =>
         /\ ds.ret.result # NilResult
         /\ ds.ret.result = ConcatRounds(ds.rounds)
    /\ \A i \in 1..Len(ds.rounds) :
         RoundFails(ds.rounds[i]) =>
            /\ i = Len(ds.rounds)
            /\ ds.pc = "done"
            /\ ds.ret.err # NoErr
            /\ ds.rounds[i].out.err # NoErr => ds.ret.err = ds.rounds[i].out.err
            /\ ds.ret.cookie = NilBytes

C5_Witness ==
    /\ ds.pc = "done"
    /\ Len(ds.rounds) = 3
    /\ Len(ds.rounds[1].out.result.Entries) = 2
    /\ Len(ds.rounds[2].out.result.Entries) = 2
    /\ Len(ds.rounds[2].out.result.Referrals) = 1
    /\ ds.rounds[3].out.err = NewError(32, "no such object")
    /\ Len(ds.ret.result.Entries) = 4
    /\ ds.ret.result.Entries[3].round = 2
    /\ Len(ds.ret.result.Controls) = 4
    /\ ds.ret.err = NewError(32, "no such object")
    /\ ds.ret.cookie = NilBytes

\* the control found under the DirSync OID in a list is not of the variant
WrongVariant(controls, variant) ==
    /\ FindControl(controls, ControlTypeMicrosoftDirSync) # 0
    /\ DirSyncOf(controls).type # variant

\* C11: whenever the control found under the DirSync OID is not of the
\* expected variant, in the caller's request (request variant) or in a
\* round's response (response variant), the call returns an error to the
\* caller: it never panics.
C11_ControlExtractionFailsCleanly ==
    /\ ds.pc # "panic"
    /\ (ds.pc # "idle" /\ WrongVariant(ds.Controls, "ControlMicrosoftDirSync"))
         => /\ ds.pc = "done"
            /\ ds.rounds = <<>>
            /\ ds.ret.err # NoErr
    /\ \A i \in 1..Len(ds.rounds) :
         (RoundOK(ds.rounds[i])
          /\ WrongVariant(ds.rounds[i].out.result.Controls,
                          "ControlMicrosoftDirSyncResponse"))
         => /\ i = Len(ds.rounds)
            /\ ds.pc = "done"
            /\ ds.ret.err # NoErr

\* the places of the controls with the DirSync OID in a list
DirSyncPlaces(controls) ==
    {i \in 1..Len(controls) : controls[i].ControlType = ControlTypeMicrosoftDirSync}

\* a list that is orig with its DirSync control replaced in place, or orig
\* with one DirSync control appended when it had none
ReplacedOrAppended(orig, controls) ==
    /\ Cardinality(DirSyncPlaces(controls)) = 1
    /\ IF DirSyncPlaces(orig) = {}
       THEN /\ Len(controls) = Len(orig) + 1
            /\ DirSyncPlaces(controls) = {Len(controls)}
            /\ \A i \in 1..Len(orig) : controls[i] = orig[i]
       ELSE /\ Len(controls) = Len(orig)
            /\ DirSyncPlaces(controls) = DirSyncPlaces(orig)
            /\ \A i \in 1..Len(orig) : i \notin DirSyncPlaces(orig) => controls[i] = orig[i]

\* C15: on a request that held at most one control with the DirSync OID,
\* after any rounds of any of the successive calls the request holds
\* exactly one control with that OID, each other control is the one that was
\* there at its place, and at every Search that control carries the caller's
\* flags and the caller's cookie (first round) or the cookie the round
\* before returned (later rounds).
C15_DirSyncControlReplaceOrAppend ==
    ds.pc # "idle" =>
        /\ ReplacedOrAppended(ds.orig, ds.Controls)
        /\ \A i \in 1..Len(ds.rounds) :
             /\ ReplacedOrAppended(ds.orig, ds.rounds[i].Controls)
             /\ DirSyncOf(ds.rounds[i].Controls).type = "ControlMicrosoftDirSync"
             /\ DirSyncOf(ds.rounds[i].Controls).Flags = ds.flags
             /\ DirSyncOf(ds.rounds[i].Controls).Cookie =
                  IF i = 1 THEN ds.cookie ELSE ResponseControl(ds.rounds[i - 1]).Cookie

C15_Witness ==
    /\ ds.pc = "done"
    /\ ds.left = 0
    /\ ds.orig = <<OtherControl>>
    /\ ds.Controls = <<OtherControl, DirSyncRequestControl(1, Bytes(<<2>>))>>
    /\ ds.cookie = Bytes(<<5>>)
    /\ Len(ds.rounds) = 3
    /\ DirSyncOf(ds.rounds[1].Controls) = DirSyncRequestControl(1, Bytes(<<5>>))
    /\ DirSyncOf(ds.rounds[2].Controls) = DirSyncRequestControl(1, Bytes(<<1>>))
    /\ DirSyncOf(ds.rounds[3].Controls) = DirSyncRequestControl(1, Bytes(<<2>>))
    /\ ds.ret.err = NoErr

\* the round ends the exchange: Search failed, the response has no DirSync
\* control, its cookie is empty, or it has no more results
EndsExchange(round) ==
    \/ RoundFails(round)
    \/ /\ HasResponseControl(round)
       /\ ResponseControl(round).MoreResults = 0

\* the round's response is more-results 1 with a cookie
Continues(round) ==
    /\ HasResponseControl(round)
    /\ BytesLen(ResponseControl(round).Cookie) > 0
    /\ ResponseControl(round).MoreResults # 0

\* the call has returned out of its loop
Returned == ds.pc = "done" /\ Len(ds.rounds) >= 1

\* C18: SearchWithDirSync returns exactly at the first round that ends the
\* exchange, having issued as many Search calls as that round's index: as
\* long as every round was answered more-results 1 with a cookie, repeated
\* or not, it goes on, and no Search follows a round that ends the exchange;
\* when every Search returns and the server ends the exchange in some round,
\* the call eventually returns.
C18_ReturnsAtFirstEndingRound ==
    /\ [](/\ Returned =>
               /\ EndsExchange(ds.rounds[Len(ds.rounds)])
               /\ \A i \in 1..(Len(ds.rounds) - 1) : Continues(ds.rounds[i])
          /\ ds.pc = "search" => \A i \in 1..Len(ds.rounds) : Continues(ds.rounds[i])
          /\ (\E i \in 1..Len(ds.rounds) : EndsExchange(ds.rounds[i])) => Returned)
    /\ (ds.pc = "search") ~> (Returned \/ ds.pc = "panic")

C18_Witness ==
    /\ Returned
    /\ Len(ds.rounds) = 3
    /\ ResponseControl(ds.rounds[1]) = DirSyncResponseControl(Bytes(<<1>>), 1)
    /\ ResponseControl(ds.rounds[2]) = DirSyncResponseControl(Bytes(<<1>>), 1)
    /\ HasResponseControl(ds.rounds[3])
    /\ ResponseControl(ds.rounds[3]) = DirSyncResponseControl(Bytes(<<2>>), 0)
    /\ ds.ret.err = NoErr

----------------------------------------------------------------------------
(* Properties of the encoding *)

\* C12: the simple bind request read back from the octets of its envelope
\* has exactly three fields, in this order: the integer 3, the username as a
\* universal primitive octet string, the password as a context-class
\* primitive with tag 0, each equal to what the caller gave; the envelope
\* has a controls section after the request exactly when the request has at
\* least one control.
C12_SimpleBindRoundTrip ==
    enc.pc = "decoded" =>
        LET envelope == enc.packet
            bind == envelope.Children[2]
        IN  /\ envelope.Children[1].Value = [int |-> enc.id]
            /\ bind.ClassType = "Application"
            /\ bind.TagType = "Constructed"
            /\ bind.Tag = ApplicationBindRequest
            /\ Len(bind.Children) = 3
            /\ bind.Children[1] =
                 [ClassType |-> "Universal", TagType |-> "Primitive", Tag |-> TagInteger,
                  Data |-> <<3>>, Value |-> [int |-> 3]]
            /\ bind.Children[2] =
                 [ClassType |-> "Universal", TagType |-> "Primitive",
                  Tag |-> TagOctetString,
                  Data |-> enc.req.Username, Value |-> [str |-> enc.req.Username]]
            /\ bind.Children[3] =
                 [ClassType |-> "Context", TagType |-> "Primitive", Tag |-> 0,
                  Data |-> enc.req.Password, Value |-> NilValue]
            /\ Len(envelope.Children) \in {2, 3}
            /\ Len(envelope.Children) = 3 <=> Len(enc.req.Controls) >= 1
            /\ Len(envelope.Children) = 3 =>
                 /\ envelope.Children[3].ClassType = "Context"
                 /\ Len(envelope.Children[3].Children) = Len(enc.req.Controls)

C12_Witness ==
    /\ enc.pc = "decoded"
    /\ enc.req.Username = <<97, 98>>
    /\ enc.req.Password = <<98>>
    /\ Len(enc.req.Controls) = 2
    /\ enc.id = 200
    /\ Len(enc.packet.Children) = 3
    /\ enc.packet.Children[2].Children[3].Data = <<98>>

====
